---- MODULE Spec2Model ----
(***************************************************************************)
(* dangosan: an in-process, multi-lane job scheduler.                      *)
(*                                                                         *)
(* The repository holds three variants of class Dangosan:                  *)
(*   - the event-publishing variant   (src/unnamed/part_002)               *)
(*   - the adaptive-polling variant   (src/src/Dangosan.ts, 164-440)       *)
(*   - the persistence variant        (src/src/Dangosan.ts, 1-162)         *)
(* Spec is an instance of the event or of the adaptive variant (`variant`  *)
(* says which: they share every method but enqueue, start and execute);    *)
(* SpecP is an instance of the persistence variant.                        *)
(*                                                                         *)
(* One step is one run-to-completion piece of JavaScript: a public method  *)
(* up to its first suspension, a timer callback up to the suspension of    *)
(* every lane callback it starts, or the continuation of one callback once *)
(* the promise it awaits has settled. Storage is an injected asynchronous  *)
(* capability: a write takes effect when setItem is called, as in          *)
(* OnMemoryStorage, and the await on it is a suspension at which timer     *)
(* callbacks and calls may run. setup() of the adaptive variant only       *)
(* registers the job with the platform and is left out.                    *)
(***************************************************************************)
EXTENDS Integers, Sequences, FiniteSets, TLC

\* ------------------------------------------------------------------ bounds
Keys == {"a", "b"}              \* lane keys the callers use
QueueKeys == {"a"}              \* the keys options.queue configures
MaxSlotId == 2                  \* Slot objects the callers build, in enqueue order
MaxSlotSize == 2                \* largest slotSize options.queue gives a lane
MaxHandlers == 2                \* listener registrations alive at once
MaxCrashes == 1                 \* process kills
MaxTimeouts == 1                \* pending setTimeout callbacks at which the timer
                                \* stops firing further passes
ListenerKeys == {"a"}           \* lanes the callers register listeners on
Listeners == {"f", "boom"}      \* listener functions the callers hold
Throwing == {"boom"}            \* the listeners whose body throws

\* -------------------------------------------------------------- data model
NullSize == -1                  \* slotSize: null (no capacity bound)
SUPPORTED_EVENTS == {"run", "success", "fail", "done"}

\* A Slot object. live: the object the caller built, whose worker has
\* perform/terminate; not live: what JSON.parse(JSON.stringify(slot)) yields,
\* the functions dropped. The callers number their slots as they enqueue them.
Slot(id) == [id |-> id, live |-> TRUE]
NoSlot == [id |-> 0, live |-> FALSE]    \* null / undefined

VARIABLES
  variant,        \* which Dangosan class this instance is
  passes,         \* adaptive variant: per execute awaiting Promise.all, the
                  \* lanes whose callbacks are still pending
  options,        \* options.queue[key].slotSize (NullSize: not configured)
  lane,           \* this.lane: created keys -> Queue
  eventHandlers,  \* this.eventHandlers: key -> event -> listeners in Map order
  tasks,          \* lane callbacks of execute suspended at an await
  ticker,         \* the periodic timer is scheduled
  storage,        \* persistence variant: what Storage holds under storageKey
  restoring,      \* persistence variant: the getItem result restore awaits
  crashes,        \* persistence variant: process kills so far
  timeouts,       \* pending setTimeout(execute, 300) callbacks
  nextId,         \* the number of the next Slot the callers build
  ret,            \* what the call the last step made or awaited returned or
                  \* threw: enqueue, dequeue, terminateRunningWorker, perform
  calls,          \* the listener and onCompleted calls the last step made, per lane
  accepted,       \* history: per lane, the slots whose enqueue was accepted
  started,        \* history: per lane, the slots whose perform() was invoked
  settled,        \* history: per lane, the slots whose perform() settled
  taken           \* history: per lane, the slots the callers' dequeue returned

vars == <<variant, passes, options, lane, eventHandlers, tasks, ticker, storage,
          restoring, crashes, timeouts,
          nextId, ret, calls, accepted, started, settled, taken>>

NoCalls == [k \in Keys |-> <<>>]

\* what the event and adaptive variants do not have
persisted == <<storage, restoring, crashes>>

\* ---------------------------------------------------------------- helpers
buildQueue(key) ==
  [status |-> "idle", slots |-> <<>>, runningWorker |-> NoSlot,
   slotSize |-> options[key]]

\* this.lane after getQueue(key): the lane is created on first reference
getQueue(key) ==
  IF key \in DOMAIN lane THEN lane
  ELSE [k \in DOMAIN lane \cup {key} |->
          IF k = key THEN buildQueue(key) ELSE lane[k]]

\* filledQueue counting the queued slots only
filledQueueSlotsOnly(queue) ==
  IF queue.slotSize = NullSize THEN FALSE
  ELSE Len(queue.slots) >= queue.slotSize

filledQueueOffByOne(queue) ==
  IF queue.slotSize = NullSize THEN FALSE
  ELSE (IF queue.runningWorker # NoSlot THEN 1 ELSE 0) + Len(queue.slots)
         > queue.slotSize

filledQueue(queue) ==
  IF queue.slotSize = NullSize THEN FALSE
  ELSE (IF queue.runningWorker # NoSlot THEN 1 ELSE 0) + Len(queue.slots)
         >= queue.slotSize

\* Storage: the value under storageKey; getItem of a key never set is undefined
Absent == [present |-> FALSE, value |-> <<>>]
Stored(value) == [present |-> TRUE, value |-> value]
NotRestoring == [pending |-> FALSE, item |-> Absent]

Ret(op, key, slot, error) == [op |-> op, key |-> key, slot |-> slot, error |-> error]
NoRet == Ret("", "", NoSlot, "")    \* the last step was no call that returns

\* ------------------------------------------------ event variant: public API
enqueue(key, slot) ==
  LET l1 == getQueue(key) IN
  /\ variant = "event"
  /\ slot.id <= MaxSlotId \/ filledQueue(l1[key])
  /\ IF filledQueue(l1[key])
     THEN /\ lane' = l1
          /\ ret' = Ret("enqueue", key, NoSlot, "ThrottledError")
          /\ UNCHANGED <<accepted, nextId>>
     ELSE /\ lane' = [l1 EXCEPT ![key].slots = Append(@, slot)]
          /\ ret' = Ret("enqueue", key, NoSlot, "")
          /\ accepted' = [accepted EXCEPT ![key] = Append(@, slot)]
          /\ nextId' = nextId + 1
  /\ calls' = NoCalls
  /\ UNCHANGED <<variant, passes, options, eventHandlers, tasks, ticker, persisted, timeouts,
                 started, settled, taken>>

\* Array.prototype.pop in place of shift
shiftPop(l, key) ==
  LET q == l[key] IN
  IF q.slots = <<>> THEN [slot |-> NoSlot, lane |-> l]
  ELSE [slot |-> q.slots[Len(q.slots)],
        lane |-> [l EXCEPT ![key].slots = SubSeq(@, 1, Len(@) - 1)]]

\* l[key].slots.shift(): the slot taken (NoSlot for undefined) and the lanes
\* afterwards
shift(l, key) ==
  LET q == l[key] IN
  IF q.slots = <<>> THEN [slot |-> NoSlot, lane |-> l]
  ELSE [slot |-> Head(q.slots),
        lane |-> [l EXCEPT ![key].slots = Tail(@)]]

\* dequeue on this.lane (the persistence variant saves after it)
dequeue(key) == shift(lane, key)

\* the public call; this.lane[key] is undefined for a key never referenced
dequeueCall(key) ==
  /\ IF key \notin DOMAIN lane
     THEN /\ ret' = Ret("dequeue", key, NoSlot, "TypeError")
          /\ lane' = lane
     ELSE /\ ret' = Ret("dequeue", key, dequeue(key).slot, "")
          /\ lane' = dequeue(key).lane
  /\ calls' = NoCalls
  /\ taken' = IF key \in DOMAIN lane /\ dequeue(key).slot # NoSlot
              THEN [taken EXCEPT ![key] = Append(@, dequeue(key).slot)]
              ELSE taken
  /\ UNCHANGED <<variant, passes, options, eventHandlers, tasks, ticker, persisted, timeouts,
                 nextId, accepted, started, settled>>

start ==
  /\ variant = "event"
  /\ ticker' = TRUE
  /\ ret' = NoRet
  /\ calls' = NoCalls
  /\ UNCHANGED <<variant, passes, options, lane, eventHandlers, tasks, persisted, timeouts,
                 nextId, accepted, started, settled, taken>>

stop ==
  /\ ticker' = FALSE
  /\ ret' = NoRet
  /\ calls' = NoCalls
  /\ UNCHANGED <<variant, passes, options, lane, eventHandlers, tasks, persisted, timeouts,
                 nextId, accepted, started, settled, taken>>

\* terminateRunningWorker that also resets the lane
terminateRunningWorkerResets(key) ==
  /\ lane' = [getQueue(key) EXCEPT ![key].runningWorker = NoSlot,
                                   ![key].status = "idle"]
  /\ ret' = Ret("terminateRunningWorker", key, getQueue(key)[key].runningWorker, "")
  /\ calls' = NoCalls
  /\ UNCHANGED <<variant, passes, options, eventHandlers, tasks, ticker, persisted, timeouts,
                 nextId, accepted, started, settled, taken>>

\* ret.slot: the slot whose worker.terminate() was invoked, if any
terminateRunningWorker(key) ==
  /\ lane' = getQueue(key)
  /\ ret' = Ret("terminateRunningWorker", key, getQueue(key)[key].runningWorker, "")
  /\ calls' = NoCalls
  /\ UNCHANGED <<variant, passes, options, eventHandlers, tasks, ticker, persisted, timeouts,
                 nextId, accepted, started, settled, taken>>

\* ------------------------------------------------- event variant: listeners
\* eventHandlersByKey is the only accessor of this.eventHandlers and creates
\* the four empty Maps of a key on first use, so a key without entry and a
\* key with four empty Maps are the same state to every method.
Has(seq, h) == \E i \in 1..Len(seq) : seq[i] = h

Registered == {r \in Keys \X SUPPORTED_EVENTS \X Listeners :
                 Has(eventHandlers[r[1]][r[2]], r[3])}

\* Map.set(handler, handler): a key already present keeps its position
addEventListener(key, event, handler) ==
  /\ Cardinality(Registered) < MaxHandlers \/ Has(eventHandlers[key][event], handler)
  /\ eventHandlers' = [eventHandlers EXCEPT ![key][event] =
                         IF Has(@, handler) THEN @ ELSE Append(@, handler)]
  /\ ret' = NoRet
  /\ calls' = NoCalls
  /\ UNCHANGED <<variant, passes, options, lane, tasks, ticker, persisted, timeouts,
                 nextId, accepted, started, settled, taken>>

\* Map.delete(handler)
removeEventListener(key, event, handler) ==
  /\ eventHandlers' = [eventHandlers EXCEPT ![key][event] =
                         SelectSeq(@, LAMBDA x : x # handler)]
  /\ ret' = NoRet
  /\ calls' = NoCalls
  /\ UNCHANGED <<variant, passes, options, lane, tasks, ticker, persisted, timeouts,
                 nextId, accepted, started, settled, taken>>

\* Array.from(Map.values()): insertion order
listenEventListeners(key, event) == eventHandlers[key][event]

Call(event, handler, slot) == [event |-> event, listener |-> handler, slot |-> slot]

\* listeners.forEach((it) => it(slot)): the calls made, and whether one threw
\* (a throw ends the forEach and propagates)
RECURSIVE forEach(_, _, _)
forEach(listeners, event, slot) ==
  IF listeners = <<>> THEN [calls |-> <<>>, threw |-> FALSE]
  ELSE LET c == Call(event, Head(listeners), slot) IN
       IF Head(listeners) \in Throwing THEN [calls |-> <<c>>, threw |-> TRUE]
       ELSE LET r == forEach(Tail(listeners), event, slot) IN
            [calls |-> <<c>> \o r.calls, threw |-> r.threw]

publish(key, event, slot) == forEach(listenEventListeners(key, event), event, slot)

\* ------------------------------------------------------------------ execute
idleWithWorkAnyStatus(key) == lane[key].slots # <<>>

idleWithWork(key) == lane[key].status = "idle" /\ lane[key].slots # <<>>

\* the lane callback of execute from its start to `await slot.worker.perform()`
beginLane(key) ==
  LET slot == dequeue(key).slot
      run == publish(key, "run", slot)
  IN [queue |-> [dequeue(key).lane[key] EXCEPT !.runningWorker = slot,
                                                !.status = "running"],
      slot |-> slot, calls |-> run.calls, performs |-> ~run.threw]

Task(key, slot, pc) == [key |-> key, slot |-> slot, pc |-> pc]

\* Object.keys(this.lane).forEach / .map(async (key) => ...): every lane
\* callback run up to its first await
beginLanes ==
  LET go == {k \in DOMAIN lane : idleWithWork(k)} IN
  /\ lane' = [k \in DOMAIN lane |-> IF k \in go THEN beginLane(k).queue ELSE lane[k]]
  /\ tasks' = tasks \cup {Task(k, beginLane(k).slot, "perform") :
                            k \in {x \in go : beginLane(x).performs}}
  /\ calls' = [k \in Keys |-> IF k \in go THEN beginLane(k).calls ELSE <<>>]
  /\ started' = [k \in Keys |-> IF k \in go /\ beginLane(k).performs
                                THEN Append(started[k], beginLane(k).slot)
                                ELSE started[k]]
  /\ ret' = NoRet
  /\ UNCHANGED <<variant, options, eventHandlers, persisted, nextId, accepted, settled, taken>>

\* event variant: one timer callback
execute ==
  /\ variant = "event"
  /\ ticker
  /\ beginLanes
  /\ UNCHANGED <<passes, ticker, timeouts>>

\* what the try/catch around perform() publishes once perform() has settled:
\* a throw of a success listener is caught by the same catch
afterPerform(key, slot, ok) ==
  LET succ == publish(key, "success", slot)
      fail == publish(key, "fail", slot)
  IN IF ok /\ ~succ.threw THEN succ
     ELSE IF ok THEN [calls |-> succ.calls \o fail.calls, threw |-> fail.threw]
     ELSE fail

\* the rest of a lane callback once perform() has settled (ok: resolved)
endLane(t, ok) ==
  LET body == afterPerform(t.key, t.slot, ok)
      done == publish(t.key, "done", t.slot)
  IN
  /\ t.pc = "perform"
  /\ tasks' = tasks \ {t}
  /\ settled' = [settled EXCEPT ![t.key] = Append(@, t.slot)]
  /\ IF body.threw
     THEN /\ lane' = lane
          /\ calls' = [NoCalls EXCEPT ![t.key] = body.calls]
     ELSE /\ lane' = [lane EXCEPT ![t.key].status = "idle",
                                  ![t.key].runningWorker = NoSlot]
          /\ calls' = [NoCalls EXCEPT ![t.key] = body.calls \o done.calls]
  /\ ret' = Ret("perform", t.key, t.slot, IF ok THEN "" ELSE "Error")
  /\ UNCHANGED <<variant, options, eventHandlers, persisted, nextId, accepted, started, taken>>

\* whether the lane callback ends by throwing (its promise rejects)
endLaneThrows(t, ok) ==
  afterPerform(t.key, t.slot, ok).threw \/ publish(t.key, "done", t.slot).threw

\* event variant: the continuation of a lane callback when perform() settles
settle(t, ok) ==
  /\ variant = "event"
  /\ endLane(t, ok)
  /\ UNCHANGED <<passes, ticker, timeouts>>

\* ----------------------------------------------------------- adaptive variant
\* enqueue without the call of this.start()
enqueueANoStart(key, slot) ==
  LET l1 == getQueue(key) IN
  /\ variant = "adaptive"
  /\ slot.id <= MaxSlotId \/ filledQueue(l1[key])
  /\ IF filledQueue(l1[key])
     THEN /\ lane' = l1
          /\ ret' = Ret("enqueue", key, NoSlot, "ThrottledError")
          /\ UNCHANGED <<accepted, nextId>>
     ELSE /\ lane' = [l1 EXCEPT ![key].slots = Append(@, slot)]
          /\ ret' = Ret("enqueue", key, NoSlot, "")
          /\ accepted' = [accepted EXCEPT ![key] = Append(@, slot)]
          /\ nextId' = nextId + 1
  /\ calls' = NoCalls
  /\ UNCHANGED <<variant, passes, options, eventHandlers, tasks, ticker, persisted,
                 timeouts, started, settled, taken>>

\* enqueue of the adaptive variant: an accepted enqueue calls this.start()
enqueueA(key, slot) ==
  LET l1 == getQueue(key) IN
  /\ variant = "adaptive"
  /\ slot.id <= MaxSlotId \/ filledQueue(l1[key])
  /\ IF filledQueue(l1[key])
     THEN /\ lane' = l1
          /\ ret' = Ret("enqueue", key, NoSlot, "ThrottledError")
          /\ UNCHANGED <<accepted, nextId, ticker>>
     ELSE /\ lane' = [l1 EXCEPT ![key].slots = Append(@, slot)]
          /\ ret' = Ret("enqueue", key, NoSlot, "")
          /\ accepted' = [accepted EXCEPT ![key] = Append(@, slot)]
          /\ nextId' = nextId + 1
          /\ ticker' = TRUE
  /\ calls' = NoCalls
  /\ UNCHANGED <<variant, passes, options, eventHandlers, tasks, persisted,
                 timeouts, started, settled, taken>>

\* allSlotCounts over the lanes l
allSlotCounts(l) ==
  LET RECURSIVE sum(_)
      sum(ks) == IF ks = {} THEN 0
                 ELSE LET k == CHOOSE x \in ks : TRUE IN Len(l[k].slots) + sum(ks \ {k})
  IN sum(DOMAIN l)

\* what follows `await Promise.all(...)` in execute: stop the timer when every
\* lane is empty, else run execute again in 300 ms; on the lanes l, with t0
\* the timer state and n0 the pending timeouts before it
afterAll(l, t0, n0) ==
  IF allSlotCounts(l) = 0 THEN ticker' = FALSE /\ timeouts' = n0
  ELSE ticker' = t0 /\ timeouts' = n0 + 1

\* the body of execute up to the suspension of `await Promise.all(...)`; when
\* no lane callback is pending Promise.all settles at once: it rejects when a
\* callback threw, and execute ends there
executeBody(n0) ==
  LET go == {k \in DOMAIN lane : idleWithWork(k)}
      threw == \E k \in go : ~beginLane(k).performs
  IN
  /\ beginLanes
  /\ IF threw THEN UNCHANGED <<passes, ticker>> /\ timeouts' = n0
     ELSE IF go = {} THEN UNCHANGED passes /\ afterAll(lane', ticker, n0)
     ELSE passes' = passes \cup {go} /\ UNCHANGED ticker /\ timeouts' = n0

\* the periodic timer fires
executeA ==
  /\ variant = "adaptive"
  /\ ticker
  /\ timeouts < MaxTimeouts
  /\ executeBody(timeouts)

\* setTimeout(() => this.execute(), 300) fires
timeoutA ==
  /\ variant = "adaptive"
  /\ timeouts > 0
  /\ executeBody(timeouts - 1)

\* the continuation of a lane callback when perform() settles; the last
\* pending callback of its execute lets Promise.all settle
settleA(t, ok) ==
  LET mine == {p \in passes : t.key \in p}
      rest == {p \ {t.key} : p \in mine}
  IN
  /\ variant = "adaptive"
  /\ endLane(t, ok)
  /\ IF endLaneThrows(t, ok)
     THEN passes' = passes \ mine /\ UNCHANGED <<ticker, timeouts>>
     ELSE IF mine # {} /\ rest = {{}}
     THEN passes' = passes \ mine /\ afterAll(lane', ticker, timeouts)
     ELSE passes' = (passes \ mine) \cup rest /\ UNCHANGED <<ticker, timeouts>>

\* --------------------------------------- event and adaptive variants: Spec
Init ==
  /\ variant \in {"event", "adaptive"}
  /\ passes = {}
  /\ options \in [Keys -> {NullSize} \cup 1..MaxSlotSize]
  /\ \A k \in Keys \ QueueKeys : options[k] = NullSize
  /\ lane = <<>>
  /\ eventHandlers = [k \in Keys |-> [e \in SUPPORTED_EVENTS |-> <<>>]]
  /\ tasks = {}
  /\ ticker = FALSE
  /\ storage = Absent
  /\ restoring = NotRestoring
  /\ crashes = 0
  /\ timeouts = 0
  /\ nextId = 1
  /\ ret = NoRet
  /\ calls = NoCalls
  /\ accepted = [k \in Keys |-> <<>>]
  /\ started = [k \in Keys |-> <<>>]
  /\ settled = [k \in Keys |-> <<>>]
  /\ taken = [k \in Keys |-> <<>>]

Next ==
  \/ \E key \in Keys : enqueue(key, Slot(nextId))
  \/ \E key \in Keys : enqueueA(key, Slot(nextId))
  \/ \E key \in Keys : dequeueCall(key)
  \/ start
  \/ stop
  \/ \E key \in Keys : terminateRunningWorker(key)
  \/ \E key \in ListenerKeys, event \in SUPPORTED_EVENTS, handler \in Listeners :
       addEventListener(key, event, handler)
  \/ \E key \in ListenerKeys, event \in SUPPORTED_EVENTS, handler \in Listeners :
       removeEventListener(key, event, handler)
  \/ execute
  \/ \E t \in tasks, ok \in BOOLEAN : settle(t, ok)
  \/ executeA
  \/ timeoutA
  \/ \E t \in tasks, ok \in BOOLEAN : settleA(t, ok)

Spec == Init /\ [][Next]_vars

\* ------------------------------------------------------- persistence variant
\* What the event and adaptive variants have and this one has not.
others == <<passes, options, eventHandlers, timeouts>>

\* JSON.parse(JSON.stringify(slot)): worker's perform and terminate and the
\* slot's onCompleted are functions, which JSON.stringify leaves out
husk(slot) == IF slot = NoSlot THEN NoSlot ELSE [id |-> slot.id, live |-> FALSE]

\* JSON.stringify(this.lane), as the value JSON.parse gives back
stringify(l) ==
  [k \in DOMAIN l |->
     [status |-> l[k].status,
      slots |-> [i \in 1..Len(l[k].slots) |-> husk(l[k].slots[i])],
      runningWorker |-> husk(l[k].runningWorker),
      slotSize |-> l[k].slotSize]]

\* Storage after saveLane() on the lanes l: OnMemoryStorage.setItem assigns
\* before its promise resolves
saveLane(l) == Stored(stringify(l))

\* buildQueue of this variant: slotSize is always null
buildQueueP(key) ==
  [status |-> "idle", slots |-> <<>>, runningWorker |-> NoSlot,
   slotSize |-> NullSize]

\* this.lane after getQueue(key)
getQueueP(key) ==
  IF key \in DOMAIN lane THEN lane
  ELSE [k \in DOMAIN lane \cup {key} |->
          IF k = key THEN buildQueueP(key) ELSE lane[k]]

\* buildQueue is declared async: for a key never referenced getQueue returns
\* a Promise, whose `slots` is undefined, and `lane.slots.push` throws a
\* TypeError after the lane was created
enqueueP(key, slot) ==
  LET l1 == getQueueP(key)
      l2 == [l1 EXCEPT ![key].slots = Append(@, slot)]
  IN
  /\ slot.id <= MaxSlotId
  /\ IF filledQueue(l1[key])
     THEN /\ lane' = l1
          /\ ret' = Ret("enqueue", key, NoSlot, "ThrottledError")
          /\ UNCHANGED <<accepted, nextId, storage>>
     ELSE IF key \notin DOMAIN lane
     THEN /\ lane' = l1
          /\ ret' = Ret("enqueue", key, NoSlot, "TypeError")
          /\ UNCHANGED <<accepted, nextId, storage>>
     ELSE /\ lane' = l2
          /\ storage' = saveLane(l2)
          /\ ret' = Ret("enqueue", key, NoSlot, "")
          /\ accepted' = [accepted EXCEPT ![key] = Append(@, slot)]
          /\ nextId' = nextId + 1
  /\ calls' = NoCalls
  /\ UNCHANGED <<variant, others, tasks, ticker, restoring, crashes, started, settled, taken>>

\* the public dequeue: shift, then saveLane
dequeueCallP(key) ==
  /\ IF key \notin DOMAIN lane
     THEN /\ ret' = Ret("dequeue", key, NoSlot, "TypeError")
          /\ UNCHANGED <<lane, storage>>
     ELSE /\ ret' = Ret("dequeue", key, dequeue(key).slot, "")
          /\ lane' = dequeue(key).lane
          /\ storage' = saveLane(dequeue(key).lane)
  /\ taken' = IF key \in DOMAIN lane /\ dequeue(key).slot # NoSlot
              THEN [taken EXCEPT ![key] = Append(@, dequeue(key).slot)]
              ELSE taken
  /\ calls' = NoCalls
  /\ UNCHANGED <<variant, others, tasks, ticker, restoring, crashes, nextId,
                 accepted, started, settled>>

\* a husk has no worker.terminate: calling it throws a TypeError
terminateRunningWorkerP(key) ==
  LET rw == getQueueP(key)[key].runningWorker IN
  /\ lane' = getQueueP(key)
  /\ ret' = Ret("terminateRunningWorker", key, rw,
                IF rw # NoSlot /\ ~rw.live THEN "TypeError" ELSE "")
  /\ calls' = NoCalls
  /\ UNCHANGED <<variant, others, tasks, ticker, storage, restoring, crashes,
                 nextId, accepted, started, settled, taken>>

\* perform() up to `await this.storage().getItem(...)` in restore: the item is
\* read now, the rest runs when the promise has resolved. The callers call
\* perform() to start the scheduler, not while it runs.
perform ==
  /\ ~ticker /\ ~restoring.pending
  /\ restoring' = [pending |-> TRUE, item |-> storage]
  /\ ret' = NoRet
  /\ calls' = NoCalls
  /\ UNCHANGED <<variant, others, lane, tasks, ticker, storage, crashes, nextId,
                 accepted, started, settled, taken>>

\* the reduce of restore over the parsed lanes: a lane found running gets its
\* runningWorker back at the head of its slots
restoreNoReinsert(parsed) ==
  [k \in DOMAIN parsed |->
     IF parsed[k].status = "running" /\ parsed[k].runningWorker # NoSlot
     THEN [parsed[k] EXCEPT !.runningWorker = NoSlot, !.status = "idle"]
     ELSE parsed[k]]

\* restore resetting the status of a running lane and nothing else
restoreStatusOnly(parsed) ==
  [k \in DOMAIN parsed |->
     IF parsed[k].status = "running" /\ parsed[k].runningWorker # NoSlot
     THEN [parsed[k] EXCEPT !.status = "idle"]
     ELSE parsed[k]]

restore(parsed) ==
  [k \in DOMAIN parsed |->
     IF parsed[k].status = "running" /\ parsed[k].runningWorker # NoSlot
     THEN [parsed[k] EXCEPT !.slots = <<parsed[k].runningWorker>> \o @,
                            !.runningWorker = NoSlot,
                            !.status = "idle"]
     ELSE parsed[k]]

\* the rest of perform(): JSON.parse(undefined) throws a SyntaxError, which
\* ends perform() before the timer is started
performRest ==
  /\ restoring.pending
  /\ restoring' = NotRestoring
  /\ IF restoring.item.present
     THEN /\ lane' = restore(restoring.item.value)
          /\ ticker' = TRUE
          /\ ret' = Ret("Dangosan.perform", "", NoSlot, "")
     ELSE /\ UNCHANGED <<lane, ticker>>
          /\ ret' = Ret("Dangosan.perform", "", NoSlot, "SyntaxError")
  /\ calls' = NoCalls
  /\ UNCHANGED <<variant, others, tasks, storage, crashes, nextId,
                 accepted, started, settled, taken>>

\* one timer callback: every lane callback run up to the await in
\* `await this.dequeue(key)`, which shifts and calls saveLane
executeP ==
  LET go == {k \in DOMAIN lane : lane[k].status = "idle"}
      l1 == [k \in DOMAIN lane |-> IF k \in go THEN dequeue(k).lane[k] ELSE lane[k]]
  IN
  /\ ticker
  /\ lane' = l1
  /\ storage' = IF go = {} THEN storage ELSE saveLane(l1)
  /\ tasks' = tasks \cup {Task(k, dequeue(k).slot, "dequeue") : k \in go}
  /\ ret' = NoRet
  /\ calls' = NoCalls
  /\ UNCHANGED <<variant, others, ticker, restoring, crashes, nextId,
                 accepted, started, settled, taken>>

\* a lane callback after `await this.dequeue(key)`, up to `await this.saveLane()`
afterDequeue(t) ==
  LET l1 == [lane EXCEPT ![t.key].runningWorker = t.slot,
                         ![t.key].status = "running"]
  IN
  /\ t.pc = "dequeue"
  /\ IF t.slot = NoSlot
     THEN /\ tasks' = tasks \ {t}
          /\ UNCHANGED <<lane, storage>>
     ELSE /\ tasks' = (tasks \ {t}) \cup {Task(t.key, t.slot, "save")}
          /\ lane' = l1
          /\ storage' = saveLane(l1)
  /\ ret' = NoRet
  /\ calls' = NoCalls
  /\ UNCHANGED <<variant, others, ticker, restoring, crashes, nextId,
                 accepted, started, settled, taken>>

\* a lane callback after `await this.saveLane()`: slot.worker.perform() is
\* called; on a husk it is undefined and the call throws a TypeError, which
\* ends the callback
afterSave(t) ==
  /\ t.pc = "save"
  /\ IF t.slot.live
     THEN /\ tasks' = (tasks \ {t}) \cup {Task(t.key, t.slot, "perform")}
          /\ started' = [started EXCEPT ![t.key] = Append(@, t.slot)]
          /\ ret' = NoRet
     ELSE /\ tasks' = tasks \ {t}
          /\ UNCHANGED started
          /\ ret' = Ret("perform", t.key, t.slot, "TypeError")
  /\ calls' = NoCalls
  /\ UNCHANGED <<variant, others, lane, ticker, storage, restoring, crashes,
                 nextId, accepted, settled, taken>>

\* a Slot built with an onCompleted callback: the callers give one to every
\* other slot they build; a husk has none (JSON.stringify leaves functions out)
HasOnCompleted(slot) == slot.live /\ slot.id % 2 = 1

\* onCompleted invoked whatever perform() came to
onCompletedAnyOutcome(t, ok) ==
  IF HasOnCompleted(t.slot) THEN <<Call("onCompleted", "onCompleted", t.slot)>>
  ELSE <<>>

\* `if (slot.onCompleted) slot.onCompleted(slot)`: the calls made by the lane
\* callback of t once perform() has settled; the lines are reached only when
\* perform() resolved
onCompleted(t, ok) ==
  IF ok /\ HasOnCompleted(t.slot)
  THEN <<Call("onCompleted", "onCompleted", t.slot)>>
  ELSE <<>>

\* a lane callback when perform() settles: there is no try/catch, a rejection
\* ends the callback; so does a throw of onCompleted, after the lane was
\* reset and before the last saveLane
settleP(t, ok) ==
  LET l1 == [lane EXCEPT ![t.key].status = "idle",
                         ![t.key].runningWorker = NoSlot]
  IN
  /\ t.pc = "perform"
  /\ tasks' = tasks \ {t}
  /\ settled' = [settled EXCEPT ![t.key] = Append(@, t.slot)]
  /\ ret' = Ret("perform", t.key, t.slot, IF ok THEN "" ELSE "Error")
  /\ calls' = [NoCalls EXCEPT ![t.key] = onCompleted(t, ok)]
  /\ lane' = IF ok THEN l1 ELSE lane
  /\ \E threw \in (IF onCompleted(t, ok) # <<>> THEN BOOLEAN ELSE {FALSE}) :
       storage' = IF ok /\ ~threw THEN saveLane(l1) ELSE storage
  /\ UNCHANGED <<variant, others, ticker, restoring, crashes, nextId,
                 accepted, started, taken>>

\* the process is killed and started again: the instance is new, Storage
\* (a durable one) keeps its value
kill ==
  /\ crashes < MaxCrashes
  /\ crashes' = crashes + 1
  /\ lane' = <<>>
  /\ tasks' = {}
  /\ ticker' = FALSE
  /\ restoring' = NotRestoring
  /\ ret' = NoRet
  /\ calls' = NoCalls
  /\ UNCHANGED <<variant, others, storage, nextId, accepted, started, settled, taken>>

InitP ==
  /\ variant = "persistence"
  /\ passes = {}
  /\ options = [k \in Keys |-> NullSize]
  /\ lane = <<>>
  /\ eventHandlers = [k \in Keys |-> [e \in SUPPORTED_EVENTS |-> <<>>]]
  /\ tasks = {}
  /\ ticker = FALSE
  /\ storage = Absent
  /\ restoring = NotRestoring
  /\ crashes = 0
  /\ timeouts = 0
  /\ nextId = 1
  /\ ret = NoRet
  /\ calls = NoCalls
  /\ accepted = [k \in Keys |-> <<>>]
  /\ started = [k \in Keys |-> <<>>]
  /\ settled = [k \in Keys |-> <<>>]
  /\ taken = [k \in Keys |-> <<>>]

NextP ==
  \/ \E key \in Keys : enqueueP(key, Slot(nextId))
  \/ \E key \in Keys : dequeueCallP(key)
  \/ \E key \in Keys : terminateRunningWorkerP(key)
  \/ perform
  \/ performRest
  \/ executeP
  \/ \E t \in tasks : afterDequeue(t)
  \/ \E t \in tasks : afterSave(t)
  \/ \E t \in tasks, ok \in BOOLEAN : settleP(t, ok)
  \/ kill

SpecP == InitP /\ [][NextP]_vars

\* ------------------------------------------------------------------- claims
InFlight(key) == {t \in tasks : t.key = key /\ t.pc = "perform"}

\* C1: in every reachable state every lane has at most one slot whose
\* perform() is in flight, and that slot is the lane's runningWorker
C1_OneInFlightPerLane ==
  \A k \in Keys :
    /\ Cardinality(InFlight(k)) <= 1
    /\ \A t \in InFlight(k) :
         lane[k].status = "running" /\ lane[k].runningWorker = t.slot

\* a pass of the adaptive driver has run while lane "a" had a perform() in
\* flight and a further slot queued
C1_Witness ==
  /\ variant = "adaptive"
  /\ InFlight("a") # {}
  /\ lane["a"].slots # <<>>
  /\ timeouts > 0

\* the lane holds every slot it ever accepted: nothing was executed or removed
Untouched(key) == key \in DOMAIN lane /\ lane[key].slots = accepted[key]

\* C2: on a lane with slotSize = N that holds N accepted slots, none executed,
\* the next enqueue throws ThrottledError and leaves every lane as it was
C2_ThrottledAtCapacity ==
  [][\A k \in Keys :
       (/\ Untouched(k)
        /\ lane[k].slotSize # NullSize
        /\ Len(accepted[k]) = lane[k].slotSize
        /\ ret'.op = "enqueue" /\ ret'.key = k)
       => (ret'.error = "ThrottledError" /\ lane' = lane /\ accepted' = accepted)]_vars

C2_Witness ==
  /\ ret.op = "enqueue" /\ ret.key = "a" /\ ret.error = "ThrottledError"
  /\ Untouched("a")
  /\ Len(accepted["a"]) = 2 /\ lane["a"].slotSize = 2

RECURSIVE IsSubseq(_, _)
IsSubseq(s, t) ==
  IF s = <<>> THEN TRUE
  ELSE IF t = <<>> THEN FALSE
  ELSE IF Head(s) = Head(t) THEN IsSubseq(Tail(s), Tail(t))
  ELSE IsSubseq(s, Tail(t))

\* C3: within a lane the slots are started in the order their enqueues were
\* accepted
C3_FifoWithinLane == \A k \in Keys : IsSubseq(started[k], accepted[k])

C3_Witness == \E k \in Keys : Len(started[k]) = 2 /\ Len(accepted[k]) = 2

\* C4: whenever a started slot's perform() settles, by success or by error,
\* the lane is idle again with no runningWorker
C4_SettleReturnsLaneToIdle ==
  [][\A k \in Keys :
       (ret'.op = "perform" /\ ret'.key = k /\ ret'.error \in {"", "Error"})
       => (lane'[k].status = "idle" /\ lane'[k].runningWorker = NoSlot)]_vars

\* every listener of the lane's event, in Map order, each once, with the slot
AllListeners(key, event, slot) ==
  [i \in 1..Len(eventHandlers[key][event]) |->
     Call(event, eventHandlers[key][event][i], slot)]

StartsIn(key) == Len(started'[key]) > Len(started[key])

\* C5: an execution whose perform() succeeds invokes the run listeners when
\* it starts and the success listeners, then the done listeners when it
\* settles: each once, in order, with the slot, and no fail listener
C5_SuccessEvents ==
  [][\A k \in Keys :
       /\ StartsIn(k) =>
            calls'[k] = AllListeners(k, "run", started'[k][Len(started'[k])])
       /\ (ret'.op = "perform" /\ ret'.key = k /\ ret'.error = "") =>
            calls'[k] = AllListeners(k, "success", ret'.slot)
                          \o AllListeners(k, "done", ret'.slot)]_vars

\* C6: an execution whose perform() fails invokes the run listeners, then the
\* fail listeners, then the done listeners, and no success listener
C6_FailEvents ==
  [][\A k \in Keys :
       /\ StartsIn(k) =>
            calls'[k] = AllListeners(k, "run", started'[k][Len(started'[k])])
       /\ (ret'.op = "perform" /\ ret'.key = k /\ ret'.error = "Error") =>
            calls'[k] = AllListeners(k, "fail", ret'.slot)
                          \o AllListeners(k, "done", ret'.slot)]_vars

Ids(slots) == {slots[i].id : i \in 1..Len(slots)}

\* the slots lane key accepted that neither settled nor were handed back to
\* a caller by dequeue
Unfinished(key) ==
  Ids(accepted[key]) \ (Ids(settled[key]) \cup Ids(taken[key]))

\* C7: at every point, restoring the snapshot last written yields a registry
\* whose slots contain every accepted slot whose perform() has not completed
\* (stated for the first life of the process: a kill at any point of it would
\* lose nothing)
C7_SnapshotKeepsUnfinishedSlots ==
  \A k \in Keys :
    (crashes = 0 /\ Unfinished(k) # {}) =>
      /\ storage.present
      /\ k \in DOMAIN storage.value
      /\ Unfinished(k) \subseteq Ids(restore(storage.value)[k].slots)

RestoreStep ==
  /\ restoring.pending /\ ~restoring'.pending /\ crashes' = crashes

\* C8: restore maps a lane persisted as running with runningWorker S and slots
\* L to idle, no runningWorker and S followed by L, leaves every other lane as
\* persisted, and leaves no lane running
C8_RestoreRepairsRunning ==
  [][(RestoreStep /\ restoring.item.present) =>
       LET parsed == restoring.item.value IN
       /\ DOMAIN lane' = DOMAIN parsed
       /\ \A k \in DOMAIN parsed :
            /\ lane'[k].status # "running"
            /\ IF parsed[k].status = "running" /\ parsed[k].runningWorker # NoSlot
               THEN /\ lane'[k].status = "idle"
                    /\ lane'[k].runningWorker = NoSlot
                    /\ lane'[k].slots = <<parsed[k].runningWorker>> \o parsed[k].slots
                    /\ lane'[k].slotSize = parsed[k].slotSize
               ELSE lane'[k] = parsed[k]]_vars

\* perform() has just restored a snapshot taken while lane "a" ran a slot
\* with another one queued
C8_Witness ==
  /\ ret.op = "Dangosan.perform" /\ ret.error = ""
  /\ storage.present /\ "a" \in DOMAIN storage.value
  /\ storage.value["a"].status = "running"
  /\ Len(storage.value["a"].slots) = 1
  /\ "a" \in DOMAIN lane
  /\ lane["a"].slots = <<storage.value["a"].runningWorker>> \o storage.value["a"].slots
  /\ lane["a"].status = "idle"

\* C9: the timer is started only by the step that completes restore, and when
\* Storage holds no value restore yields an empty registry and the timer is
\* started
C9_PerformStartsTicker ==
  [][/\ (ticker' /\ ~ticker) => RestoreStep
     /\ (RestoreStep /\ ~restoring.item.present) => (lane' = <<>> /\ ticker')]_vars

IdleEmpty(key) ==
  key \in DOMAIN lane =>
    /\ lane[key].status = "idle"
    /\ lane[key].slots = <<>>
    /\ lane[key].runningWorker = NoSlot

\* C10: an enqueue that is not throttled, on a key never referenced or on an
\* idle lane with no slots, is accepted; a dequeue after it returns the slot
\* and leaves the lane's slots empty; a lane created by it is idle without
\* runningWorker
C10_EnqueueDequeueRoundTrip ==
  [][\A k \in Keys :
       (/\ ret'.op = "enqueue" /\ ret'.key = k
        /\ ret'.error # "ThrottledError"
        /\ IdleEmpty(k))
       => /\ ret'.error = ""
          /\ k \in DOMAIN lane'
          /\ shift(lane', k).slot = Slot(nextId)
          /\ shift(lane', k).lane[k].slots = <<>>
          /\ lane'[k].status = "idle"
          /\ lane'[k].runningWorker = NoSlot]_vars

\* the running worker of lane key, none for a key never referenced
RunningWorkerOf(key) ==
  IF key \in DOMAIN lane THEN lane[key].runningWorker ELSE NoSlot

\* C11: terminateRunningWorker(key) invokes terminate() of the lane's
\* runningWorker when there is one and of nothing otherwise, does not fail
\* when there is none, and leaves every lane as it was (a key never referenced
\* gets its empty idle lane)
C11_TerminateFrame ==
  [][\A k \in Keys :
       (ret'.op = "terminateRunningWorker" /\ ret'.key = k) =>
         /\ ret'.slot = RunningWorkerOf(k)
         /\ RunningWorkerOf(k) = NoSlot => ret'.error = ""
         /\ \A j \in DOMAIN lane : lane'[j] = lane[j]
         /\ DOMAIN lane' = DOMAIN lane \cup {k}
         /\ lane'[k].status = (IF k \in DOMAIN lane THEN lane[k].status ELSE "idle")
         /\ lane'[k].slots = (IF k \in DOMAIN lane THEN lane[k].slots ELSE <<>>)
         /\ lane'[k].runningWorker = RunningWorkerOf(k)
         /\ tasks' = tasks]_vars

\* terminate() was invoked on the running slot of a lane that has a further
\* slot queued
C11_Witness ==
  /\ ret.op = "terminateRunningWorker" /\ ret.slot # NoSlot
  /\ lane[ret.key].status = "running"
  /\ lane[ret.key].runningWorker = ret.slot
  /\ lane[ret.key].slots # <<>>

Count(seq, h) == Cardinality({i \in 1..Len(seq) : seq[i] = h})

\* the listener calls of one event among the calls cs
EventCalls(cs, event) == SelectSeq(cs, LAMBDA c : c.event = event)

\* what a step does to the listeners of one (key, event): nothing, or it
\* registers one that was not registered, at the end, or it removes one that
\* was registered, the others keeping their order
RegistryStep(old, new) ==
  \/ new = old
  \/ \E h \in Listeners : ~Has(old, h) /\ new = Append(old, h)
  \/ \E h \in Listeners : Has(old, h) /\ new = SelectSeq(old, LAMBDA x : x # h)

\* C12: for every (key, event) a listener is registered at most once however
\* often it was added; adding a registered listener and removing one that is
\* not registered change nothing; every publish invokes each registered
\* listener exactly once, and no listener that was removed
C12_ListenerRegistry ==
  [][\A k \in Keys, e \in SUPPORTED_EVENTS :
       LET ec == EventCalls(calls'[k], e) IN
       /\ \A h \in Listeners : Count(eventHandlers'[k][e], h) <= 1
       /\ RegistryStep(eventHandlers[k][e], eventHandlers'[k][e])
       /\ ec # <<>> => ec = AllListeners(k, e, ec[1].slot)]_vars

\* ------------------------------------------ event and adaptive variants: SpecL
\* The scheduler left to run: the callers enqueue, start the timer and manage
\* listeners, and neither stop the timer nor take slots out themselves. The
\* timer fires while it runs, a pending setTimeout fires, and every perform()
\* of lane LaneY settles; a perform() of the other lane may never settle.
LaneY == "a"

NextL ==
  \/ \E key \in Keys : enqueue(key, Slot(nextId))
  \/ \E key \in Keys : enqueueA(key, Slot(nextId))
  \/ start
  \/ \E key \in ListenerKeys, event \in SUPPORTED_EVENTS, handler \in Listeners :
       addEventListener(key, event, handler)
  \/ \E key \in ListenerKeys, event \in SUPPORTED_EVENTS, handler \in Listeners :
       removeEventListener(key, event, handler)
  \/ execute
  \/ \E t \in tasks, ok \in BOOLEAN : settle(t, ok)
  \/ executeA
  \/ timeoutA
  \/ \E t \in tasks, ok \in BOOLEAN : settleA(t, ok)

SpecL ==
  /\ Init
  /\ [][NextL]_vars
  /\ WF_vars(execute)
  /\ WF_vars(executeA)
  /\ WF_vars(timeoutA)
  /\ WF_vars(\E t \in tasks, ok \in BOOLEAN : t.key = LaneY /\ settle(t, ok))
  /\ WF_vars(\E t \in tasks, ok \in BOOLEAN : t.key = LaneY /\ settleA(t, ok))

\* the done event of slot was published on lane key: its perform() settled and
\* the lane callback went on to reset the lane (a callback that a listener's
\* throw ended before leaves the slot as the lane's runningWorker for good)
DonePublished(key, slot) ==
  /\ Has(settled[key], slot)
  /\ lane[key].runningWorker # slot

\* C13: with the timer running and every perform() of lane LaneY settling,
\* every slot accepted into LaneY is eventually started and its done event
\* eventually published, whatever the other lane's worker does
C13_LaneProgress ==
  \A i \in 1..MaxSlotId :
    (Has(accepted[LaneY], Slot(i)) /\ (variant = "event" => ticker))
      ~> (Has(started[LaneY], Slot(i)) /\ DonePublished(LaneY, Slot(i)))

\* C14: in the persistence variant a timer callback that runs while a lane
\* callback awaits dequeue does not start a second slot of that lane: no lane
\* ever has two slots whose perform() was invoked and has not settled
C14_NoSecondStartAcrossAwait ==
  \A k \in Keys :
    \A t1, t2 \in tasks :
      (t1.key = k /\ t2.key = k /\ t1.pc = "perform" /\ t2.pc = "perform")
        => t1.slot = t2.slot

\* a step that sets the timer off and does nothing else: the callers' stop()
\* (a pass of execute that finds every lane empty and idle looks the same)
StopCall ==
  /\ ~ticker'
  /\ ret' = NoRet
  /\ calls' = NoCalls
  /\ UNCHANGED <<variant, passes, options, lane, eventHandlers, tasks, persisted,
                 timeouts, nextId, accepted, started, settled, taken>>

AcceptedEnqueue == ret'.op = "enqueue" /\ ret'.error = ""

\* C15 as stated: in the adaptive variant the timer is stopped only by a step
\* after which every lane's slots are empty, every accepted enqueue leaves the
\* timer running, and whenever a slot is queued the timer runs or a follow-up
\* pass is scheduled
C15_TickerStopsOnlyWhenEmpty ==
  [][variant = "adaptive" =>
       /\ (ticker /\ ~ticker') => allSlotCounts(lane') = 0
       /\ AcceptedEnqueue => ticker'
       /\ allSlotCounts(lane') > 0 => (ticker' \/ timeouts' > 0)]_vars

\* C15, amended: in the adaptive variant the timer is stopped only by the
\* callers' stop() or by a step after which every lane's slots are empty,
\* every accepted enqueue leaves the timer running, no slot gets queued while
\* the timer stays stopped, and from a state with the timer running every
\* step but the callers' stop() leads to a state where, if a slot is queued,
\* the timer runs or a follow-up pass is scheduled
C15_TickerStopsWhenEmptyOrByStop ==
  [][variant = "adaptive" =>
       /\ (ticker /\ ~ticker' /\ ~StopCall) => allSlotCounts(lane') = 0
       /\ AcceptedEnqueue => ticker'
       /\ (~ticker /\ ~ticker') => allSlotCounts(lane') <= allSlotCounts(lane)
       /\ (ticker /\ ~StopCall) =>
            (allSlotCounts(lane') > 0 => (ticker' \/ timeouts' > 0))]_vars

\* an enqueue was accepted after the lane's earlier slot had settled and no
\* pass was pending or scheduled any more: the timer runs again
C15_Witness ==
  /\ variant = "adaptive"
  /\ ret.op = "enqueue" /\ ret.error = ""
  /\ settled[ret.key] # <<>>
  /\ passes = {} /\ timeouts = 0 /\ tasks = {}
  /\ ticker

\* workerCnt of filledQueue
WorkerCnt(queue) ==
  (IF queue.runningWorker # NoSlot THEN 1 ELSE 0) + Len(queue.slots)

\* C16: in every reachable state a lane configured with slotSize = N holds at
\* most N slots, its running one included
C16_CapacityBound ==
  \A k \in DOMAIN lane :
    lane[k].slotSize # NullSize => WorkerCnt(lane[k]) <= lane[k].slotSize

\* a lane of slotSize 2 is full with one slot running and one queued, and a
\* further enqueue was just refused
C16_Witness ==
  /\ "a" \in DOMAIN lane
  /\ lane["a"].slotSize = 2
  /\ lane["a"].runningWorker # NoSlot
  /\ Len(lane["a"].slots) = 1
  /\ ret.op = "enqueue" /\ ret.key = "a" /\ ret.error = "ThrottledError"

\* C17: a listener's throw neither keeps the other listeners of the event
\* from being invoked nor the lane from returning to idle: a publish invokes
\* every registered listener, and when perform() has settled the lane is
\* idle without runningWorker and done was published
C17_ListenerThrowIsolated ==
  [][\A k \in Keys :
       /\ \A e \in SUPPORTED_EVENTS :
            LET ec == EventCalls(calls'[k], e) IN
            ec # <<>> => Len(ec) = Len(eventHandlers[k][e])
       /\ (ret'.op = "perform" /\ ret'.key = k) =>
            /\ lane'[k].status = "idle"
            /\ lane'[k].runningWorker = NoSlot
            /\ EventCalls(calls'[k], "done") = AllListeners(k, "done", ret'.slot)]_vars

\* C18: dequeue(key) on a key never referenced returns no slot without
\* failing, and afterwards the lane exists, idle, with no slots and no
\* runningWorker
C18_DequeueUnknownKey ==
  [][\A k \in Keys :
       (ret'.op = "dequeue" /\ ret'.key = k /\ k \notin DOMAIN lane) =>
         /\ ret'.error = ""
         /\ ret'.slot = NoSlot
         /\ k \in DOMAIN lane'
         /\ lane'[k].status = "idle"
         /\ lane'[k].slots = <<>>
         /\ lane'[k].runningWorker = NoSlot]_vars

\* ------------------------------------------------- the three variants: SpecAll
\* An instance of any of the three classes.
InitAll == Init \/ InitP

NextAll ==
  \/ variant # "persistence" /\ Next
  \/ variant = "persistence" /\ NextP

SpecAll == InitAll /\ [][NextAll]_vars

\* C19: in every state between two steps, a lane's status is running if and
\* only if its runningWorker is set
C19_RunningIffWorker ==
  \A k \in DOMAIN lane :
    (lane[k].status = "running") <=> (lane[k].runningWorker # NoSlot)

\* the persistence variant, restarted after a kill, has restored its lanes
\* and lane "a" runs a slot again
C19_Witness ==
  /\ variant = "persistence"
  /\ crashes = 1
  /\ "a" \in DOMAIN lane
  /\ lane["a"].status = "running"
  /\ lane["a"].runningWorker # NoSlot

\* the places of the slot numbered id of lane key
Queued(key, id) == key \in DOMAIN lane /\ id \in Ids(lane[key].slots)

Running(key, id) ==
  /\ key \in DOMAIN lane
  /\ lane[key].runningWorker # NoSlot
  /\ lane[key].runningWorker.id = id
  /\ \E t \in InFlight(key) : t.slot.id = id

Finished(key, id) == id \in Ids(settled[key])

\* C20: with every slot enqueued once, a lane's slots never contain its
\* runningWorker, and every accepted slot (that the callers did not take back
\* with dequeue) is in exactly one place: queued in slots, the runningWorker
\* with its perform() in flight, or finished; stated for the first life of
\* the process
C20_SlotInOnePlace ==
  crashes = 0 =>
    \A k \in Keys :
      /\ k \in DOMAIN lane =>
           (lane[k].runningWorker = NoSlot
              \/ lane[k].runningWorker.id \notin Ids(lane[k].slots))
      /\ \A id \in Ids(accepted[k]) \ Ids(taken[k]) :
           Cardinality({p \in {"queued", "running", "finished"} :
                          \/ p = "queued" /\ Queued(k, id)
                          \/ p = "running" /\ Running(k, id)
                          \/ p = "finished" /\ Finished(k, id)}) = 1

\* the onCompleted calls among the calls the step made on lane key
OnCompletedCalls(key) == EventCalls(calls'[key], "onCompleted")

\* C21: in the persistence variant onCompleted is invoked only by the step in
\* which the slot's perform() has resolved, once and with that slot; every
\* such step of a slot that has the callback invokes it; a slot settles once,
\* so its callback is invoked once in all; no step invokes it for a slot
\* whose perform() failed or is still in flight
C21_OnCompletedOnceAfterSuccess ==
  [][\A k \in Keys :
       LET oc == OnCompletedCalls(k) IN
       /\ oc # <<>> =>
            /\ oc = <<Call("onCompleted", "onCompleted", ret'.slot)>>
            /\ ret'.op = "perform" /\ ret'.key = k /\ ret'.error = ""
            /\ Task(k, ret'.slot, "perform") \in tasks \ tasks'
            /\ ~Has(settled[k], ret'.slot)
            /\ settled'[k] = Append(settled[k], ret'.slot)
       /\ (/\ ret'.op = "perform" /\ ret'.key = k /\ ret'.error = ""
           /\ HasOnCompleted(ret'.slot)) => oc # <<>>
       /\ IsSubseq(settled[k], settled'[k])]_vars

\* the perform() of a slot built with onCompleted has just resolved while the
\* lane had another slot queued: the callback was invoked with the slot
C21_Witness ==
  /\ variant = "persistence"
  /\ ret.op = "perform" /\ ret.key = "a" /\ ret.error = ""
  /\ calls["a"] = <<Call("onCompleted", "onCompleted", ret.slot)>>
  /\ lane["a"].slots # <<>>
====
